---- MODULE Spec2Model ----
(***************************************************************************)
(* Small vectors of servo's util crate (components/util/smallvec.rs):      *)
(* a container that keeps up to inline_size elements in an embedded array  *)
(* and falls back to a heap buffer for more.                               *)
(*                                                                         *)
(* Memory is modelled slot by slot.  A slot holds the bits of one element: *)
(*   zero    all-zero bits (mem::zeroed): the destructor is a no-op;       *)
(*   val e   the bits of the live element e;                               *)
(*   uninit  bits left by mem::uninitialized() or by a fresh allocation;   *)
(*           field e names the element whose bits were in the slot before  *)
(*           (0 when none).  What a destructor run on such a slot does is  *)
(*           undefined; UninitOutcomes lists what a build can produce.     *)
(* An address is a region (a heap buffer b >= 1, the inline array of       *)
(* container c as -c, null as 0) and an offset in elements.                *)
(***************************************************************************)
EXTENDS Integers, Sequences, FiniteSets, TLC

\* The variants the model instantiates: SmallVec1 and SmallVec2.
InlineSizes == {1, 2}
\* The variants of the push/pop-only specification: SmallVec1, SmallVec2, SmallVec4.
PushSizes == {1, 2, 4}
\* The containers of a behaviour: 1 is built by new(), 2 by clone().
Vecs == {1, 2}
\* Bounds: elements ever created, heap buffers ever allocated (Spec),
\* pushes of the push/pop-only specification (SpecPush).
MaxElems == 4
MaxBufs == 3
MaxPush == 9
\* The largest capacity a direct call of grow asks for (SpecGrow).
MaxCap == 4

VARIABLES
  size,   \* inline_size of the variant in use
  vec,    \* vec[c]: the fields of container c, and whether it exists
  hp,     \* hp[b]: heap buffer b, in allocation order
  el,     \* el[e]: element e: who owns it, how often its destructor ran, its value
  it,     \* the SmallVecMoveIterator in existence, if any
  last,   \* the last operation: its name, container, result, destructor/free events
  abs     \* abs[c]: the abstract sequence container c stands for;
          \* abs[0]: the sequence the drain iterator has still to yield

\* last.op comes first so that two values of last.ret are compared only when
\* they are results of the same operation, hence of the same type.
vars == <<last.op, size, vec, hp, el, it, last, abs>>

Max(a, b) == IF a > b THEN a ELSE b
Min(a, b) == IF a < b THEN a ELSE b

-----------------------------------------------------------------------------
\* Slot contents.
Zero == [k |-> "zero", e |-> 0]
Val(e) == [k |-> "val", e |-> e]
Uninit(e) == [k |-> "uninit", e |-> e]
\* What uninitialized bits turn out to be when drop glue runs on them: still
\* the bits of the element that was in the slot before ("stale": its destructor
\* runs), or anything else ("other": zero bits or garbage, no element's
\* destructor runs).
UninitOutcomes == {"stale", "other"}

None == 0 - 1
Fail == 0 - 2

\* The machine state the operations transform.
World == [vec |-> vec, hp |-> hp, el |-> el, it |-> it, ev |-> <<>>]

Offset(a, n) == [r |-> a.r, o |-> a.o + n]
Null == [r |-> 0, o |-> 0]

\* The slots of region r: none when r is null, a released buffer or a container
\* that is gone.
Slots(w, r) ==
  IF r < 0 THEN w.vec[0 - r].data
  ELSE IF r \in 1..Len(w.hp) THEN w.hp[r].slots
  ELSE <<>>

\* A read outside every live slot finds garbage; a write there is lost.
Read(w, a) ==
  IF a.o + 1 \in 1..Len(Slots(w, a.r)) THEN Slots(w, a.r)[a.o + 1] ELSE Uninit(0)

Write(w, a, x) ==
  IF a.o + 1 \notin 1..Len(Slots(w, a.r)) THEN w
  ELSE IF a.r < 0 THEN [w EXCEPT !.vec[0 - a.r].data[a.o + 1] = x]
  ELSE [w EXCEPT !.hp[a.r].slots[a.o + 1] = x]

\* The element a slot holds, 0 when it holds none.
Elem(x) == IF x.k = "val" THEN x.e ELSE 0

\* heap::allocate: a fresh buffer of n uninitialized slots; its id is Len(hp)+1.
allocate(w, n) ==
  [w EXCEPT !.hp = Append(@, [st |-> "live", n |-> n, nfree |-> 0, fsz |-> 0,
                              slots |-> [i \in 1..n |-> Uninit(0)]])]

\* heap::deallocate of buffer b, passing n as the element count.
deallocate(w, b, n) ==
  [w EXCEPT !.hp[b] = [@ EXCEPT !.st = "freed", !.nfree = Min(@ + 1, 2),
                                !.fsz = n, !.slots = <<>>],
            !.ev = Append(@, [t |-> "free", x |-> b])]

RECURSIVE copy_nonoverlapping_memory(_, _, _, _)
copy_nonoverlapping_memory(w, dst, src, count) ==
  IF count = 0 THEN w
  ELSE copy_nonoverlapping_memory(Write(w, dst, Read(w, src)),
                                  Offset(dst, 1), Offset(src, 1), count - 1)

RECURSIVE set_memory(_, _, _)
set_memory(w, dst, count) ==
  IF count = 0 THEN w
  ELSE set_memory(Write(w, dst, Zero), Offset(dst, 1), count - 1)

\* The destructor of element e runs (counted up to 2: once too often).
RunDtor(w, e) ==
  [w EXCEPT !.el[e].d = Min(@ + 1, 2), !.ev = Append(@, [t |-> "dtor", x |-> e])]

\* Element e (if the bits were one) passes to owner o.
SetOwner(w, e, o) == IF e \in 1..Len(w.el) THEN [w EXCEPT !.el[e].own = o] ELSE w

\* Drop glue applied to the bits x; u is what uninitialized bits turn out to be.
drop_bits(w, x, u) ==
  CASE x.k = "zero" -> w
    [] x.k = "val" -> RunDtor(w, x.e)
    [] OTHER -> IF u = "stale" /\ x.e \in 1..Len(w.el) THEN RunDtor(w, x.e) ELSE w

-----------------------------------------------------------------------------
\* trait SmallVec

spilled(w, c) == w.vec[c].cap > size

begin(w, c) ==
  IF spilled(w, c) THEN [r |-> w.vec[c].ptr, o |-> 0] ELSE [r |-> 0 - c, o |-> 0]

end(w, c) == Offset(begin(w, c), w.vec[c].len)

\* grow as it would be with the copy one element short.
grow_short_copy(w, c, new_cap) ==
  LET v == w.vec[c]
      new_alloc == Len(w.hp) + 1
      w1 == allocate(w, new_cap)
      w2 == copy_nonoverlapping_memory(w1, [r |-> new_alloc, o |-> 0],
                                       begin(w1, c), Max(v.len - 1, 0))
      w3 == IF spilled(w2, c) THEN deallocate(w2, v.ptr, v.cap)
            ELSE set_memory(w2, begin(w2, c), v.len)
  IN [w3 EXCEPT !.vec[c].ptr = new_alloc, !.vec[c].cap = new_cap]

\* grow(new_cap): allocate, move the len elements over, release the old heap
\* buffer or zero the inline slots that were moved out, then switch over.
grow(w, c, new_cap) ==
  LET v == w.vec[c]
      new_alloc == Len(w.hp) + 1
      w1 == allocate(w, new_cap)
      w2 == copy_nonoverlapping_memory(w1, [r |-> new_alloc, o |-> 0],
                                       begin(w1, c), v.len)
      w3 == IF spilled(w2, c) THEN deallocate(w2, v.ptr, v.cap)
            ELSE set_memory(w2, begin(w2, c), v.len)
  IN [w3 EXCEPT !.vec[c].ptr = new_alloc, !.vec[c].cap = new_cap]

\* The capacity push asks grow for.  (Before it: one slot more.)
push_new_cap_one_more(cap) == cap + 1
push_new_cap(cap) == Max(cap * 2, 1)

\* push grows when the container is full.  (Before it: the test as it would be
\* one element early, and as it would be one element late.)
push_grows_early(len, cap) == len + 1 >= cap
push_grows_late(len, cap) == len > cap
push_must_grow(len, cap) == len = cap

\* push(value): mem::overwrite writes the slot without dropping what was there.
push(w, c, e) ==
  LET cap == w.vec[c].cap
      w1 == IF push_must_grow(w.vec[c].len, cap) THEN grow(w, c, push_new_cap(cap))
            ELSE w
      w2 == Write(w1, end(w1, c), Val(e))
  IN SetOwner([w2 EXCEPT !.vec[c].len = @ + 1], e, "vec")

\* The index pop takes the element from.  (Before it: the first index.)
pop_first_index(len) == 0
pop_last_index(len) == len - 1

\* What pop() returns: None on an empty container, else the last element.
pop_ret(w, c) ==
  IF w.vec[c].len = 0 THEN None
  ELSE Elem(Read(w, Offset(begin(w, c), pop_last_index(w.vec[c].len))))

\* pop as it would be if an emptied container went back to its inline storage.
pop_unspills(w, c) ==
  IF w.vec[c].len = 0 THEN w
  ELSE LET last_index == pop_last_index(w.vec[c].len)
           end_ptr == Offset(begin(w, c), last_index)
           value == Read(w, end_ptr)
           w1 == Write(w, end_ptr, Uninit(value.e))
           w2 == IF last_index = 0 THEN [w1 EXCEPT !.vec[c].cap = size] ELSE w1
       IN SetOwner([w2 EXCEPT !.vec[c].len = last_index], Elem(value), "popped")

\* pop as it would be if it released the heap buffer with the last element.
pop_releases_when_empty(w, c) ==
  IF w.vec[c].len = 0 THEN w
  ELSE LET last_index == pop_last_index(w.vec[c].len)
           end_ptr == Offset(begin(w, c), last_index)
           value == Read(w, end_ptr)
           w1 == Write(w, end_ptr, Uninit(value.e))
           w2 == IF last_index = 0 /\ spilled(w1, c)
                 THEN [deallocate(w1, w1.vec[c].ptr, w1.vec[c].cap)
                         EXCEPT !.vec[c].cap = size]
                 ELSE w1
       IN SetOwner([w2 EXCEPT !.vec[c].len = last_index], Elem(value), "popped")

\* pop(): mem::swap exchanges the last element with `value`, which is
\* mem::uninitialized(), so the vacated slot is left with uninitialized bits.
pop(w, c) ==
  IF w.vec[c].len = 0 THEN w
  ELSE LET last_index == pop_last_index(w.vec[c].len)
           end_ptr == Offset(begin(w, c), last_index)
           value == Read(w, end_ptr)
           w1 == Write(w, end_ptr, Uninit(value.e))
       IN SetOwner([w1 EXCEPT !.vec[c].len = last_index], Elem(value), "popped")

\* The two assertions of slice and mut_slice.  (Before them: the second alone.)
slice_ok_end_only(start, end_, len) == end_ <= len
slice_ok(start, end_, len) == start <= end_ /\ end_ <= len

\* slice(start, end): <<Fail>> when an assertion fails, else the elements of the
\* view, which starts at begin + start and is end - start long.
slice(w, c, start, end_) ==
  IF ~slice_ok(start, end_, w.vec[c].len) THEN <<Fail>>
  ELSE [i \in 1..(end_ - start) |-> Elem(Read(w, Offset(begin(w, c), start + i - 1)))]

as_slice(w, c) == slice(w, c, 0, w.vec[c].len)

\* $name::new()
new(w, c) ==
  [w EXCEPT !.vec[c] = [st |-> "live", len |-> 0, cap |-> size, ptr |-> 0,
                        data |-> [i \in 1..size |-> Zero]]]

\* The bounds check of get and get_mut.  (Before it: the check off by one.)
get_in_bounds_inclusive(index, len) == index <= len
get_in_bounds(index, len) == index < len

\* get(index) / get_mut(index): ok is FALSE when the bounds check fails (the
\* task fails), else ref is the address the returned reference points to.

get(w, c, index) ==
  IF ~get_in_bounds(index, w.vec[c].len) THEN [ok |-> FALSE, ref |-> Null]
  ELSE [ok |-> TRUE, ref |-> Offset(begin(w, c), index)]

get_mut(w, c, index) ==
  IF ~get_in_bounds(index, w.vec[c].len) THEN [ok |-> FALSE, ref |-> Null]
  ELSE [ok |-> TRUE, ref |-> Offset(begin(w, c), index)]

mut_slice(w, c, start, end_) ==
  IF ~slice_ok(start, end_, w.vec[c].len) THEN <<Fail>>
  ELSE [i \in 1..(end_ - start) |-> Elem(Read(w, Offset(begin(w, c), start + i - 1)))]

\* iter(): the SmallVecIterator over [begin, end).
iter(w, c) == [ptr |-> begin(w, c), end |-> end(w, c)]

\* The iterators as the element size makes them.  Here an address counts bytes
\* from the start of its region (begin() is at byte 0); an element type with a
\* destructor has size_of = 1 unit, so that bytes and slots coincide, and a
\* zero-size type has size_of = 0.
\* ptr.offset(count) on a pointer to elements of size size_of.
offset(a, count, size_of) == [r |-> a.r, o |-> a.o + count * size_of]

\* iter() and mut_iter(): ptr = begin(), end = begin().offset(len).
iter_sized(w, c, size_of) ==
  [ptr |-> begin(w, c), end |-> offset(begin(w, c), w.vec[c].len, size_of)]

mut_iter(w, c, size_of) ==
  [ptr |-> begin(w, c), end |-> offset(begin(w, c), w.vec[c].len, size_of)]

\* SmallVecIterator::next and SmallVecMutIterator::next: ret is the reference
\* returned, null for None; i is the iterator afterwards.  (Before them: next
\* as it would be if it returned the new pointer.)
iter_next_returns_new(i, size_of) ==
  IF i.ptr = i.end THEN [ret |-> Null, i |-> i]
  ELSE LET new_ptr == IF size_of = 0 THEN [r |-> i.ptr.r, o |-> i.ptr.o + 1]
                  ELSE offset(i.ptr, 1, size_of)
       IN [ret |-> new_ptr, i |-> [i EXCEPT !.ptr = new_ptr]]

iter_next(i, size_of) ==
  IF i.ptr = i.end THEN [ret |-> Null, i |-> i]
  ELSE LET old == i.ptr
           new_ptr == IF size_of = 0 THEN [r |-> i.ptr.r, o |-> i.ptr.o + 1]
                  ELSE offset(i.ptr, 1, size_of)
       IN [ret |-> old, i |-> [i EXCEPT !.ptr = new_ptr]]

mut_iter_next(i, size_of) ==
  IF i.ptr = i.end THEN [ret |-> Null, i |-> i]
  ELSE LET old == i.ptr
           new_ptr == IF size_of = 0 THEN [r |-> i.ptr.r, o |-> i.ptr.o + 1]
                  ELSE offset(i.ptr, 1, size_of)
       IN [ret |-> old, i |-> [i EXCEPT !.ptr = new_ptr]]

\* move_iter(): the iterator keeps the storage; the container is reset.
move_iter(w, c) ==
  LET i == iter(w, c)
      ptr_opt == IF spilled(w, c) THEN w.vec[c].ptr ELSE 0
      inline_size == size
  IN [w EXCEPT !.vec[c].cap = inline_size, !.vec[c].len = 0,
               !.it = [st |-> "live", src |-> c, ptr |-> i.ptr, end |-> i.end,
                       allocation |-> ptr_opt, cap |-> inline_size]]

\* SmallVecMoveIterator::next: the result, and the state after it.  (Before
\* it: the result as it would be if taken from the other end.)
move_next_ret_from_end(w) ==
  IF w.it.ptr = w.it.end THEN None ELSE Elem(Read(w, Offset(w.it.end, 0 - 1)))
move_next_ret(w) ==
  IF w.it.ptr = w.it.end THEN None ELSE Elem(Read(w, w.it.ptr))

move_next(w) ==
  IF w.it.ptr = w.it.end THEN w
  ELSE LET old == w.it.ptr
       IN [Write(w, old, Zero) EXCEPT !.it.ptr = Offset(old, 1)]

\* Drop for SmallVecMoveIterator: `for _ in *self {}` drops what is left, then
\* the captured allocation is released with self.cap as its size.
RECURSIVE drop_remaining(_, _)
drop_remaining(w, u) ==
  IF w.it.ptr = w.it.end THEN w
  ELSE drop_remaining(drop_bits(move_next(w), Read(w, w.it.ptr), u), u)

drop_move_iter(w, u) ==
  LET w1 == drop_remaining(w, u)
      w2 == IF w1.it.allocation = 0 THEN w1
            ELSE deallocate(w1, w1.it.allocation, w1.it.cap)
  IN [w2 EXCEPT !.it = [st |-> "none", src |-> 0, ptr |-> Null, end |-> Null,
                        allocation |-> 0, cap |-> 0]]

\* Drop for $name: the loop assigns over each live heap slot, which drops the
\* old value, then the buffer is released.
RECURSIVE drop_heap_elements(_, _, _, _)
drop_heap_elements(w, p, n, u) ==
  IF n = 0 THEN w
  ELSE drop_heap_elements(Write(drop_bits(w, Read(w, p), u), p, Uninit(Read(w, p).e)),
                          Offset(p, 1), n - 1, u)

drop(w, c, u) ==
  IF ~spilled(w, c) THEN w
  ELSE LET ptr == [r |-> w.vec[c].ptr, o |-> 0]
           w1 == drop_heap_elements(w, ptr, w.vec[c].len, u)
       IN deallocate(w1, w.vec[c].ptr, w.vec[c].cap)

\* After Drop::drop returns, the fields are dropped: every slot of
\* data: [T, ..$size], whatever len is.  f[i] resolves slot i if uninitialized.
RECURSIVE drop_data(_, _, _, _)
drop_data(w, c, i, f) ==
  IF i > size THEN w
  ELSE drop_data(drop_bits(w, w.vec[c].data[i], f[i]), c, i + 1, f)

destroy(w, c, f, u) ==
  LET w1 == drop(w, c, u)
      w2 == drop_data(w1, c, 1, f)
  IN [w2 EXCEPT !.vec[c] = [st |-> "dead", len |-> 0, cap |-> 0, ptr |-> 0,
                            data |-> <<>>]]

\* Clone: new(), then push a clone of every element iter() yields.
RECURSIVE clone_loop(_, _, _)
clone_loop(w, i, dst) ==
  IF i.ptr = i.end THEN w
  ELSE LET element == Elem(Read(w, i.ptr))
           e == Len(w.el) + 1
           v == IF element \in 1..Len(w.el) THEN w.el[element].v ELSE 0
           w1 == [w EXCEPT !.el = Append(@, [own |-> "new", d |-> 0, v |-> v])]
       IN clone_loop(push(w1, dst, e), [i EXCEPT !.ptr = Offset(i.ptr, 1)], dst)

\* clone as it would be if it copied the fields instead of the elements.
clone_shallow(w, src, dst) == [w EXCEPT !.vec[dst] = w.vec[src]]

clone(w, src, dst) == clone_loop(new(w, dst), iter(w, src), dst)

\* push_all_move(other): `for value in other.move_iter() { self.push(value) }`.
\* The loop, with the iterator in w.it ...
RECURSIVE push_all_move_loop(_, _)
push_all_move_loop(w, self) ==
  IF move_next_ret(w) = None THEN w
  ELSE LET value == move_next_ret(w)
       IN push_all_move_loop(push(move_next(w), self, value), self)

\* ... and the whole call: the iterator is dropped when the loop is over, and
\* `other`, which was passed by value, when the function returns.  f resolves
\* the uninitialized slots of other's inline array.
push_all_move(w, self, other, f) ==
  LET w1 == move_iter(w, other)
      w2 == push_all_move_loop(w1, self)
      w3 == drop_move_iter(w2, "other")
  IN destroy(w3, other, f, "other")

-----------------------------------------------------------------------------
\* trait VecLike, as implemented for the small vectors ...
vec_len(w, c) == w.vec[c].len

vec_push(w, c, e) == push(w, c, e)

vec_mut_slice(w, c, start, end_) == mut_slice(w, c, start, end_)

\* The default method.  (Before it: the view as it would be from index 0.)
vec_mut_slice_from_zero(w, c, start) ==
  LET len == vec_len(w, c) IN vec_mut_slice(w, c, 0, len)
vec_mut_slice_from(w, c, start) ==
  LET len == vec_len(w, c) IN vec_mut_slice(w, c, start, len)

\* ... and for Vec<T>, the ordinary growable vector, a sequence s here: len,
\* push and mut_slice are those of the standard library.
Vec_vec_len(s) == Len(s)

Vec_vec_push(s, e) == Append(s, e)

Vec_vec_mut_slice(s, start, end_) ==
  IF start <= end_ /\ end_ <= Len(s) THEN SubSeq(s, start + 1, end_) ELSE <<Fail>>

Vec_vec_mut_slice_from(s, start) ==
  LET len == Vec_vec_len(s) IN Vec_vec_mut_slice(s, start, len)

-----------------------------------------------------------------------------
NoVec == [st |-> "none", len |-> 0, cap |-> 0, ptr |-> 0, data |-> <<>>]
NoIter == [st |-> "none", src |-> 0, ptr |-> Null, end |-> Null, allocation |-> 0, cap |-> 0]

InitWith(sizes) ==
  /\ size \in sizes
  /\ vec = [c \in Vecs |->
              IF c = 1 THEN [st |-> "live", len |-> 0, cap |-> size, ptr |-> 0,
                             data |-> [i \in 1..size |-> Zero]]
              ELSE NoVec]
  /\ hp = <<>>
  /\ el = <<>>
  /\ it = NoIter
  /\ last = [op |-> "new", c |-> 1, arg |-> <<0, 0>>, ret |-> None, ev |-> <<>>]
  /\ abs = [c \in {0} \cup Vecs |-> <<>>]

Init == InitWith(InlineSizes)

\* Container c exists and no drain iterator borrows it.
Usable(c) == vec[c].st = "live" /\ ~(it.st = "live" /\ it.src = c)

CommitArg(w, op, c, arg, ret) ==
  /\ vec' = w.vec
  /\ hp' = w.hp
  /\ el' = w.el
  /\ it' = w.it
  /\ last' = [op |-> op, c |-> c, arg |-> arg, ret |-> ret, ev |-> w.ev]
  /\ UNCHANGED size

Commit(w, op, c, ret) == CommitArg(w, op, c, <<0, 0>>, ret)

NewElem(w, v) == [w EXCEPT !.el = Append(@, [own |-> "new", d |-> 0, v |-> v])]

\* v.push(x) with a newly made value x.
PushWith(c, maxE, maxB) ==
  /\ Usable(c)
  /\ Len(el) < maxE
  /\ LET e == Len(el) + 1
         w == push(NewElem(World, e), c, e)
     IN /\ Len(w.hp) <= maxB
        /\ Commit(w, "push", c, e)
        /\ abs' = [abs EXCEPT ![c] = Append(@, e)]

Push(c) == PushWith(c, MaxElems, MaxBufs)

\* v.pop()
Pop(c) ==
  /\ Usable(c)
  /\ Commit(pop(World, c), "pop", c, pop_ret(World, c))
  /\ abs' = [abs EXCEPT ![c] = IF @ = <<>> THEN @ ELSE SubSeq(@, 1, Len(@) - 1)]

\* v.push(x) with a value x the caller got back from pop() or from a drain.
PushBack(c) ==
  \E e \in 1..Len(el) :
    /\ Usable(c)
    /\ el[e].own \in {"popped", "yielded"}
    /\ el[e].d = 0
    /\ LET w == push(World, c, e)
       IN /\ Len(w.hp) <= MaxBufs
          /\ Commit(w, "push", c, e)
          /\ abs' = [abs EXCEPT ![c] = Append(@, e)]

\* *v.get_mut(index) = x with a newly made value x: the assignment drops the
\* element stored there.
Store(c) ==
  \E index \in 0..vec[c].len :
    /\ Usable(c)
    /\ Len(el) < MaxElems
    /\ LET e == Len(el) + 1
           g == get_mut(World, c, index)
           a == g.ref
       IN IF ~g.ok
          THEN /\ CommitArg(World, "store", c, <<index, 0>>, Fail)
               /\ UNCHANGED abs
          ELSE LET w0 == NewElem(World, e)
                   w1 == drop_bits(w0, Read(w0, a), "other")
                   w2 == Write(w1, a, Val(e))
               IN /\ CommitArg(SetOwner(w2, e, "vec"), "store", c, <<index, 0>>, e)
                  /\ abs' = [abs EXCEPT ![c][index + 1] = e]

\* v.move_iter()
MoveIter(c) ==
  /\ Usable(c)
  /\ it.st = "none"
  /\ Commit(move_iter(World, c), "move_iter", c, None)
  /\ abs' = [abs EXCEPT ![0] = abs[c], ![c] = <<>>]

\* iterator.next(): the caller receives the element.
IterNext ==
  /\ it.st = "live"
  /\ LET r == move_next_ret(World)
         w == move_next(World)
     IN Commit(SetOwner(w, r, "yielded"), "next", it.src, r)
  /\ abs' = [abs EXCEPT ![0] = IF @ = <<>> THEN @ ELSE Tail(@)]

\* The iterator goes out of scope.  u resolves uninitialized bits among the
\* values it still has to drop (one resolution when there are none).
IterDrop ==
  /\ it.st = "live"
  /\ \E u \in (IF \E i \in 0..(it.end.o - it.ptr.o - 1) :
                      Read(World, Offset(it.ptr, i)).k = "uninit"
                THEN UninitOutcomes ELSE {"other"}) :
       Commit(drop_move_iter(World, u), "iterdrop", it.src, None)
  /\ abs' = [abs EXCEPT ![0] = <<>>]

\* let w = v.clone(): container 1 is cloned into container 2.
Clone ==
  /\ Usable(1)
  /\ vec[2].st = "none"
  /\ Len(el) + vec[1].len <= MaxElems
  /\ LET w == clone(World, 1, 2)
     IN /\ Len(w.hp) <= MaxBufs
        /\ Commit(w, "clone", 2, None)
        /\ abs' = [abs EXCEPT ![2] = [i \in 1..vec[1].len |-> Len(el) + i]]

\* The slots an operation that destroys container c would find uninitialized.
UninitData(c) == {i \in 1..size : vec[c].data[i].k = "uninit"}
UninitLive(c) ==
  {i \in 0..(vec[c].len - 1) : Read(World, Offset(begin(World, c), i)).k = "uninit"}

\* Container c goes out of scope.  f and u resolve the uninitialized bits the
\* destructor runs on: f[i] for slot i of the inline array, u for live heap slots.
Destroy(c) ==
  /\ Usable(c)
  /\ \E f \in [1..size -> UninitOutcomes],
        u \in (IF UninitLive(c) = {} THEN {"other"} ELSE UninitOutcomes) :
       /\ \A i \in (1..size) \ UninitData(c) : f[i] = "other"
       /\ Commit(destroy(World, c, f, u), "destroy", c, None)
  /\ abs' = [abs EXCEPT ![c] = <<>>]

\* v.grow(new_cap) called directly, with any new_cap >= len from 1 to MaxCap
\* (an allocation of no bytes is left out).
Grow(c) ==
  \E new_cap \in Max(vec[c].len, 1)..MaxCap :
    /\ Usable(c)
    /\ Len(hp) < MaxBufs
    /\ CommitArg(grow(World, c, new_cap), "grow", c, <<new_cap, 0>>, None)
    /\ UNCHANGED abs

\* What k successive calls of next return.
RECURSIVE IterCalls(_, _, _)
IterCalls(i, size_of, k) ==
  IF k = 0 THEN <<>>
  ELSE LET n == iter_next(i, size_of)
       IN <<n.ret>> \o IterCalls(n.i, size_of, k - 1)

RECURSIVE MutIterCalls(_, _, _)
MutIterCalls(i, size_of, k) ==
  IF k = 0 THEN <<>>
  ELSE LET n == mut_iter_next(i, size_of)
       IN <<n.ret>> \o MutIterCalls(n.i, size_of, k - 1)

\* v.iter() and k calls of next, up to two more than there are elements.
Iter(c) ==
  \E k \in 0..(vec[c].len + 2) :
    /\ Usable(c)
    /\ CommitArg(World, "iter", c, <<k, 0>>, IterCalls(iter_sized(World, c, 1), 1, k))
    /\ UNCHANGED abs

\* v.mut_iter() and k calls of next, the references only read.
MutIter(c) ==
  \E k \in 0..(vec[c].len + 2) :
    /\ Usable(c)
    /\ CommitArg(World, "mut_iter", c, <<k, 0>>,
                 MutIterCalls(mut_iter(World, c, 1), 1, k))
    /\ UNCHANGED abs

\* v.iter() and k calls of next on a container of zero-size elements.
IterZeroSize(c) ==
  \E k \in 0..(vec[c].len + 2) :
    /\ Usable(c)
    /\ CommitArg(World, "iter_zero_size", c, <<k, 0>>,
                 IterCalls(iter_sized(World, c, 0), 0, k))
    /\ UNCHANGED abs

\* v.push_all_move(w) with two containers v # w.
PushAllMove(self, other) ==
  /\ self # other
  /\ Usable(self) /\ Usable(other)
  /\ it.st = "none"
  /\ \E f \in [1..size -> UninitOutcomes] :
       /\ \A i \in (1..size) \ UninitData(other) : f[i] = "other"
       /\ LET w == push_all_move(World, self, other, f)
          IN /\ Len(w.hp) <= MaxBufs
             /\ CommitArg(w, "push_all_move", self, <<other, 0>>, None)
  /\ abs' = [abs EXCEPT ![self] = abs[self] \o abs[other], ![other] = <<>>]

\* The calls of trait VecLike, made on container c and on the Vec abs[c] alike.
VecPush(c) ==
  /\ Usable(c)
  /\ Len(el) < MaxPush
  /\ LET e == Len(el) + 1
     IN /\ Commit(vec_push(NewElem(World, e), c, e), "vec_push", c, e)
        /\ abs' = [abs EXCEPT ![c] = Vec_vec_push(@, e)]

VecLen(c) ==
  /\ Usable(c)
  /\ Commit(World, "vec_len", c, vec_len(World, c))
  /\ UNCHANGED abs

VecMutSliceFrom(c) ==
  \E start \in 0..(vec[c].len + 1) :
    /\ Usable(c)
    /\ CommitArg(World, "vec_mut_slice_from", c, <<start, 0>>,
                 vec_mut_slice_from(World, c, start))
    /\ UNCHANGED abs

\* v.get(index), for every index up to one past the capacity.
Get(c) ==
  \E index \in 0..(vec[c].cap + 1) :
    /\ Usable(c)
    /\ LET g == get(World, c, index)
       IN CommitArg(World, "get", c, <<index, 0>>,
                    IF g.ok THEN Elem(Read(World, g.ref)) ELSE Fail)
    /\ UNCHANGED abs

\* v.get_mut(index), the reference only read.
GetMut(c) ==
  \E index \in 0..(vec[c].cap + 1) :
    /\ Usable(c)
    /\ LET g == get_mut(World, c, index)
       IN CommitArg(World, "get_mut", c, <<index, 0>>,
                    IF g.ok THEN Elem(Read(World, g.ref)) ELSE Fail)
    /\ UNCHANGED abs

\* v.slice(start, end), for every pair up to one past the length.
Slice(c) ==
  \E start \in 0..(vec[c].len + 1), end_ \in 0..(vec[c].len + 1) :
    /\ Usable(c)
    /\ CommitArg(World, "slice", c, <<start, end_>>, slice(World, c, start, end_))
    /\ UNCHANGED abs

\* v.mut_slice(start, end), the view only read.
MutSlice(c) ==
  \E start \in 0..(vec[c].len + 1), end_ \in 0..(vec[c].len + 1) :
    /\ Usable(c)
    /\ CommitArg(World, "mut_slice", c, <<start, end_>>, mut_slice(World, c, start, end_))
    /\ UNCHANGED abs

Next ==
  \/ \E c \in Vecs : Push(c)
  \/ \E c \in Vecs : Pop(c)
  \/ \E c \in Vecs : Store(c)
  \/ \E c \in Vecs : MoveIter(c)
  \/ IterNext
  \/ IterDrop
  \/ Clone
  \/ \E c \in Vecs : Destroy(c)

\* Every operation on containers built from new() and clone(), each pushed
\* value newly made.
Spec == Init /\ [][Next]_vars

\* One container of variant 1, 2 or 4 that is only pushed onto and popped from.
InitPush == InitWith(PushSizes)
PushOnly == PushWith(1, MaxPush, MaxPush)
NextPush == PushOnly \/ Pop(1)
SpecPush == InitPush /\ [][NextPush]_vars

\* One container of variant 1 or 2 that is pushed onto, popped from, indexed,
\* sliced and iterated over.
NextAccess ==
  \/ Push(1)
  \/ Pop(1)
  \/ Get(1)
  \/ GetMut(1)
  \/ Slice(1)
  \/ MutSlice(1)
  \/ Iter(1)
  \/ MutIter(1)
SpecAccess == Init /\ [][NextAccess]_vars

\* One container whose caller also pushes values back that it received from
\* pop() or from a drain.
NextReuse ==
  \/ Push(1)
  \/ PushBack(1)
  \/ Pop(1)
  \/ MoveIter(1)
  \/ IterNext
  \/ IterDrop
  \/ Destroy(1)
SpecReuse == Init /\ [][NextReuse]_vars

\* One container whose caller also calls grow directly.
NextGrow ==
  \/ Push(1)
  \/ Pop(1)
  \/ Grow(1)
  \/ Destroy(1)
SpecGrow == Init /\ [][NextGrow]_vars

\* One container of zero-size elements that is pushed onto, popped from and
\* iterated over.  (The slots record which values the container holds; a
\* zero-size value has no bytes, and every slot has the byte address begin().)
NextZeroSize ==
  \/ Push(1)
  \/ Pop(1)
  \/ IterZeroSize(1)
SpecZeroSize == Init /\ [][NextZeroSize]_vars

\* Two containers, the second a clone of the first, that are pushed onto, the
\* first also popped from and pushed onto with values popped before, until
\* one is appended to the other.
NextPushAll ==
  \/ \E c \in Vecs : Push(c)
  \/ PushBack(1)
  \/ Pop(1)
  \/ Clone
  \/ \E self \in Vecs, other \in Vecs : PushAllMove(self, other)
SpecPushAll == Init /\ [][NextPushAll]_vars

\* One container of variant 1, 2 or 4 and a Vec, both driven through VecLike.
NextVecLike ==
  \/ VecPush(1)
  \/ VecLen(1)
  \/ VecMutSliceFrom(1)
SpecVecLike == InitPush /\ [][NextVecLike]_vars

-----------------------------------------------------------------------------
\* The operation that led to the state after this step, and its container.
Did(op, c) == last'.op = op /\ last'.c = c

\* C1: pop returns the pushed values in reverse order of insertion (the value
\* pushed last among those not yet popped, abs being the stack of these) and
\* decrements the length by one; on a container of length 0 it returns None and
\* changes nothing.
C1_PopIsLifo ==
  [][\A c \in Vecs : Did("pop", c) =>
       IF vec[c].len = 0
       THEN last'.ret = None /\ UNCHANGED <<vec, hp, el, it>>
       ELSE /\ last'.ret = abs[c][Len(abs[c])]
            /\ vec'[c].len = vec[c].len - 1]_vars

\* Three values were pushed and all three popped, the first-pushed one last.
C1_Witness ==
  /\ last.op = "pop" /\ last.ret = 1
  /\ Len(el) = 3
  /\ \A e \in 1..Len(el) : el[e].own = "popped"

\* Container c has only been pushed onto: every value ever made is in it (a
\* pushed value is a new one, Len(el) counts them, and abs[c] loses one with
\* every pop that returns one).
OnlyPushed(c) == vec[c].st = "live" /\ Len(abs[c]) = Len(el)

\* C2: after any sequence of pushes onto a new container, whatever growth it
\* triggered, as_slice() is the sequence of pushed values in push order.
C2_GrowthIsTransparent ==
  \A c \in Vecs : OnlyPushed(c) =>
    /\ as_slice(World, c) = abs[c]
    /\ abs[c] = [i \in 1..Len(el) |-> i]

\* Five pushes onto a SmallVec1: the spill and two regrowths of the heap buffer.
C2_Witness ==
  /\ size = 1 /\ OnlyPushed(1) /\ vec[1].len = 5
  /\ Len(hp) = 3 /\ hp[1].st = "freed" /\ hp[2].st = "freed" /\ hp[3].st = "live"
  /\ as_slice(World, 1) = <<1, 2, 3, 4, 5>>

\* C3: a new container that received exactly inline_size pushes is not spilled
\* (its storage is the inline array); with one more push it is spilled (its
\* storage is a live heap buffer) and its capacity exceeds inline_size.
C3_SpillAfterInlineSize ==
  \A c \in Vecs : OnlyPushed(c) =>
    /\ vec[c].len = size =>
         ~spilled(World, c) /\ begin(World, c).r = 0 - c
    /\ vec[c].len = size + 1 =>
         /\ spilled(World, c) /\ vec[c].cap > size
         /\ begin(World, c).r \in 1..Len(hp) /\ hp[begin(World, c).r].st = "live"

\* The fifth push onto a new SmallVec4.
C3_Witness ==
  /\ size = 4 /\ OnlyPushed(1) /\ vec[1].len = 5 /\ spilled(World, 1)
  /\ last.op = "push"

\* The elements a drain iterator has not yielded yet.
Remaining ==
  {Elem(Read(World, Offset(it.ptr, i))) : i \in 0..(it.end.o - it.ptr.o - 1)} \ {0}

\* The elements the caller got from a drain and still holds.
Yielded == {e \in 1..Len(el) : el[e].own = "yielded"}

\* The elements the caller got from pop() and still holds.
Popped == {e \in 1..Len(el) : el[e].own = "popped"}

\* C4: when a drain iterator is dropped, each un-yielded element is destroyed
\* exactly once and the captured heap buffer is released exactly once; no
\* yielded element is destroyed and no buffer released again, neither by that
\* drop nor by the destruction of the source container afterwards.
C4_DrainDropsEachOnce ==
  [][\A c \in Vecs :
       /\ Did("iterdrop", c) =>
            /\ \A e \in Remaining : el[e].d = 0 /\ el'[e].d = 1
            /\ \A e \in Yielded : el'[e].d = el[e].d
            /\ it.allocation # 0 =>
                 hp[it.allocation].nfree = 0 /\ hp'[it.allocation].nfree = 1
            /\ \A b \in 1..Len(hp) : b # it.allocation => hp'[b] = hp[b]
       /\ Did("destroy", c) =>
            /\ \A e \in Yielded : el'[e].d = el[e].d
            /\ \A b \in 1..Len(hp) : hp[b].st = "freed" => hp'[b] = hp[b]]_vars

\* What of C4 the code keeps: the drop of the iterator itself.
C4_IterDropAlone ==
  [][\A c \in Vecs :
       Did("iterdrop", c) =>
         /\ \A e \in Remaining : el[e].d = 0 /\ el'[e].d = 1
         /\ \A e \in Yielded : el'[e].d = el[e].d
         /\ it.allocation # 0 =>
              hp[it.allocation].nfree = 0 /\ hp'[it.allocation].nfree = 1
         /\ \A b \in 1..Len(hp) : b # it.allocation => hp'[b] = hp[b]]_vars

\* C5: clone() returns a container whose contents equal the source's element
\* by element, made of elements of its own; a push, pop or in-place write on
\* either container leaves the other's fields and contents unchanged, and the
\* two never use the same heap buffer.
ValuesOf(w, c) == [i \in 1..w.vec[c].len |-> w.el[as_slice(w, c)[i]].v]
ElemsOf(w, c) == {as_slice(w, c)[i] : i \in 1..w.vec[c].len}

C6_GetIsBoundsChecked ==
  [][\A c \in Vecs : (Did("get", c) \/ Did("get_mut", c)) =>
       /\ last'.arg[1] >= vec[c].len => last'.ret = Fail
       /\ last'.arg[1] < vec[c].len => last'.ret = abs[c][last'.arg[1] + 1]
       /\ UNCHANGED <<vec, hp, el, it>>]_vars

\* get(5) on a container of length 3.
C6_Witness ==
  /\ last.op = "get" /\ last.arg[1] = 5 /\ last.ret = Fail
  /\ vec[1].len = 3

\* C7: slice(start, end) and mut_slice(start, end) fail unless
\* start <= end <= length; otherwise they return the end - start elements at
\* indices start..end-1; either way the container is unchanged.
C7_SliceIsRangeChecked ==
  [][\A c \in Vecs : (Did("slice", c) \/ Did("mut_slice", c)) =>
       LET start == last'.arg[1]
           end_ == last'.arg[2]
       IN /\ ~(start <= end_ /\ end_ <= vec[c].len) => last'.ret = <<Fail>>
          /\ (start <= end_ /\ end_ <= vec[c].len) =>
               /\ Len(last'.ret) = end_ - start
               /\ last'.ret = SubSeq(abs[c], start + 1, end_)
          /\ UNCHANGED <<vec, hp, el, it>>]_vars

\* slice(1, 3) of a spilled container returned its second and third element.
C7_Witness ==
  /\ last.op = "slice" /\ last.arg = <<1, 3>>
  /\ spilled(World, 1) /\ Len(abs[1]) >= 3
  /\ last.ret = <<abs[1][2], abs[1][3]>>

\* C8: in every state reached by push, pop, move_iter and clone,
\* 0 <= length <= capacity, capacity >= inline_size, and the inline array is
\* the storage exactly when capacity = inline_size.
C8_LengthCapacityInvariant ==
  \A c \in Vecs : vec[c].st = "live" =>
    /\ 0 <= vec[c].len /\ vec[c].len <= vec[c].cap
    /\ vec[c].cap >= size
    /\ (begin(World, c).r = 0 - c) <=> (vec[c].cap = size)

\* A spilled clone exists while the source, drained, is inline again.
C8_Witness ==
  /\ vec[2].st = "live" /\ spilled(World, 2)
  /\ last.op = "iterdrop" /\ last.c = 1 /\ vec[1].cap = size /\ Len(hp) >= 2

C10_DestroyDropsLiveOnly ==
  [][\A c \in Vecs : Did("destroy", c) =>
       LET live == ElemsOf(World, c)
           ev == last'.ev
       IN /\ \A e \in live : el[e].d = 0 /\ el'[e].d = 1
          /\ \A e \in Popped \cup Yielded : el'[e].d = el[e].d
          /\ spilled(World, c) =>
               /\ hp[vec[c].ptr].nfree = 0 /\ hp'[vec[c].ptr].nfree = 1
               /\ \A i \in 1..Len(ev), j \in 1..Len(ev) :
                    (ev[i].t = "free" /\ ev[j].t = "dtor") => j < i]_vars

\* What of C10 the code keeps: the live elements and the heap buffer.
C10_LiveAndBufferOnce ==
  [][\A c \in Vecs : Did("destroy", c) =>
       LET live == ElemsOf(World, c)
           ev == last'.ev
       IN /\ \A e \in live : el[e].d = 0 /\ el'[e].d = 1
          /\ spilled(World, c) =>
               /\ hp[vec[c].ptr].nfree = 0 /\ hp'[vec[c].ptr].nfree = 1
               /\ \A i \in 1..Len(ev), j \in 1..Len(ev) :
                    (ev[i].t = "free" /\ ev[j].t = "dtor" /\ ev[j].x \in live) => j < i]_vars

\* The spilled containers whose heap pointer is buffer b.
Owners(b) == {c \in Vecs : vec[c].st = "live" /\ spilled(World, c) /\ vec[c].ptr = b}

\* C11: after every operation a spilled container owns one live heap buffer
\* and an inline one none: every live buffer is the storage of exactly one
\* spilled container or the allocation of the drain iterator, so a buffer that
\* growth replaced has been released and none is left allocated without owner.
C11_OneBufferPerSpilled ==
  /\ \A c \in Vecs : (vec[c].st = "live" /\ spilled(World, c)) =>
        vec[c].ptr \in 1..Len(hp) /\ hp[vec[c].ptr].st = "live"
  /\ \A b \in 1..Len(hp) : hp[b].st = "live" =>
        Cardinality(Owners(b))
          + (IF it.st = "live" /\ it.allocation = b THEN 1 ELSE 0) = 1

\* C12: right after move_iter the source has length 0 and capacity
\* inline_size; from then on a push onto, a pop from or the destruction of the
\* source runs no destructor of an element handed to the iterator (yielded or
\* still to be yielded) and leaves the buffer handed to it alone.
C12_MoveIterDetaches ==
  [][\A c \in Vecs :
       /\ Did("move_iter", c) =>
            vec'[c].len = 0 /\ vec'[c].cap = size /\ ~spilled(World, c)'
       /\ (Did("push", c) \/ Did("pop", c) \/ Did("destroy", c)) =>
            /\ \A e \in Yielded \cup Remaining : el'[e].d = el[e].d
            /\ \A b \in 1..Len(hp) :
                 (hp[b].st = "freed" \/ (it.st = "live" /\ it.allocation = b)) =>
                   hp'[b] = hp[b]]_vars

\* C13: driven by the same vec_push, vec_len and vec_mut_slice_from calls, the
\* small vector and the Vec (abs[c]) agree: vec_push appends one element to
\* either, vec_len is the number of elements, vec_mut_slice_from(start) is the
\* view of the indices start..length-1 (and fails for both when start > length).
C13_VecLikeAgrees ==
  [][\A c \in Vecs :
       /\ Did("vec_push", c) =>
            /\ as_slice(World, c)' = Append(as_slice(World, c), last'.ret)
            /\ as_slice(World, c)' = abs'[c]
            /\ vec_len(World, c)' = Vec_vec_len(abs'[c])
       /\ Did("vec_len", c) =>
            last'.ret = Vec_vec_len(abs[c]) /\ last'.ret = Len(as_slice(World, c))
       /\ Did("vec_mut_slice_from", c) =>
            /\ last'.ret = Vec_vec_mut_slice_from(abs[c], last'.arg[1])
            /\ last'.arg[1] <= vec[c].len =>
                 last'.ret = [i \in 1..(vec[c].len - last'.arg[1]) |->
                                as_slice(World, c)[last'.arg[1] + i]]]_vars

\* vec_mut_slice_from(2) on a SmallVec2 that spilled with its third of five
\* vec_push calls.
C13_Witness ==
  /\ last.op = "vec_mut_slice_from" /\ last.arg[1] = 2
  /\ size = 2 /\ spilled(World, 1) /\ vec[1].len = 5
  /\ last.ret = <<3, 4, 5>>

\* C14: grow(new_cap) with new_cap >= length leaves capacity = new_cap, the
\* new heap buffer as the active storage and as_slice() as it was.
C14_GrowKeepsContents ==
  [][\A c \in Vecs : Did("grow", c) =>
       /\ vec'[c].cap = last'.arg[1]
       /\ begin(World, c)'.r = vec'[c].ptr
       /\ vec'[c].ptr \in 1..Len(hp') /\ hp'[vec'[c].ptr].st = "live"
       /\ as_slice(World, c)' = as_slice(World, c)]_vars

\* What of C14 the code keeps: the calls with new_cap > inline_size.
C14_GrowBeyondInline ==
  [][\A c \in Vecs : (Did("grow", c) /\ last'.arg[1] > size) =>
       /\ vec'[c].cap = last'.arg[1]
       /\ begin(World, c)'.r = vec'[c].ptr
       /\ vec'[c].ptr \in 1..Len(hp') /\ hp'[vec'[c].ptr].st = "live"
       /\ as_slice(World, c)' = as_slice(World, c)]_vars

\* C15: every released heap buffer was released with the element count it was
\* allocated with.
C15_ReleaseSizeMatches ==
  \A b \in 1..Len(hp) : hp[b].st = "freed" => hp[b].fsz = hp[b].n

\* What of C15 the code keeps: the releases by grow and by the container's
\* destructor (all but those of the drain iterator's destructor).
C15_ContainerReleaseSizeMatches ==
  [][\A c \in Vecs : (Did("push", c) \/ Did("destroy", c)) =>
       \A b \in 1..Len(hp) :
         (hp[b].st = "live" /\ hp'[b].st = "freed") => hp'[b].fsz = hp[b].n]_vars

\* The smallest c0 * 2^j that is >= k.
RECURSIVE SmallestDoubling(_, _)
SmallestDoubling(c0, k) == IF c0 >= k THEN c0 ELSE SmallestDoubling(2 * c0, k)

\* C16: push changes the capacity only when length = capacity, and then to
\* exactly twice the capacity; so after k pushes onto a new container the
\* capacity is the smallest inline_size * 2^j that is >= k.
C16_PushDoublesWhenFull ==
  [][\A c \in Vecs : Did("push", c) =>
       /\ vec'[c].cap # vec[c].cap => vec[c].len = vec[c].cap
       /\ vec[c].len = vec[c].cap => vec'[c].cap = 2 * vec[c].cap
       /\ OnlyPushed(c)' => vec'[c].cap = SmallestDoubling(size, vec'[c].len)]_vars

\* The ninth push onto a new SmallVec4: capacity 4, then 8, now 16.
C16_Witness ==
  /\ last.op = "push" /\ size = 4 /\ OnlyPushed(1)
  /\ vec[1].len = 9 /\ vec[1].cap = 16 /\ Len(hp) = 2

\* C17: an element pop returned stays the caller's: no later operation on the
\* container runs its destructor or hands it out again.
C17_PoppedIsCallersOnly ==
  [][\A e \in Popped : el'[e].d = el[e].d /\ el'[e].own = "popped"]_vars

\* What of C17 the code keeps: every operation but the destruction of a
\* container leaves the popped elements alone.
C17_PoppedSafeUntilDestroy ==
  [][(\A c \in Vecs : ~Did("destroy", c)) =>
       \A e \in Popped : el'[e].d = el[e].d /\ el'[e].own = "popped"]_vars

C19_IterWalksActiveStorage ==
  [][\A c \in Vecs : (Did("iter", c) \/ Did("mut_iter", c)) =>
       /\ Len(last'.ret) = last'.arg[1]
       /\ \A j \in 1..Len(last'.ret) :
            IF j <= vec[c].len
            THEN /\ last'.ret[j] = Offset(begin(World, c), j - 1)
                 /\ Elem(Read(World, last'.ret[j])) = abs[c][j]
            ELSE last'.ret[j] = Null
       /\ UNCHANGED <<vec, hp, el, it>>]_vars

\* mut_iter() on a spilled container of three elements, next called five times.
C19_Witness ==
  /\ last.op = "mut_iter" /\ last.arg[1] = 5
  /\ vec[1].len = 3 /\ spilled(World, 1)
  /\ last.ret[3] = [r |-> vec[1].ptr, o |-> 2] /\ last.ret[4] = Null

\* C20: for a zero-size element type, the calls of next on iter() on a
\* container of length n return n items and then None.
C20_ZeroSizeIterYieldsAll ==
  [][\A c \in Vecs : Did("iter_zero_size", c) =>
       \A j \in 1..Len(last'.ret) : (last'.ret[j] # Null) <=> (j <= vec[c].len)]_vars

\* What the code does instead: iter() on zero-size elements yields nothing.
C20_ZeroSizeIterYieldsNone ==
  [][\A c \in Vecs : Did("iter_zero_size", c) =>
       \A j \in 1..Len(last'.ret) : last'.ret[j] = Null]_vars

\* C21: pop on a non-empty container leaves the capacity, the pointer, the
\* spilled/inline state and the slots of the indices 0..length-2 as they were,
\* and allocates and releases no heap buffer, also when the element removed is
\* the last one of a spilled container.
C21_PopFrame ==
  [][\A c \in Vecs : (Did("pop", c) /\ vec[c].len > 0) =>
       /\ vec'[c].cap = vec[c].cap /\ vec'[c].ptr = vec[c].ptr
       /\ spilled(World, c)' = spilled(World, c)
       /\ begin(World, c)' = begin(World, c)
       /\ \A i \in 0..(vec[c].len - 2) :
            /\ Read(World, Offset(begin(World, c), i))'
                 = Read(World, Offset(begin(World, c), i))
            /\ as_slice(World, c)'[i + 1] = as_slice(World, c)[i + 1]
       /\ Len(hp') = Len(hp)
       /\ \A b \in 1..Len(hp) : hp'[b].st = hp[b].st /\ hp'[b].nfree = hp[b].nfree
       /\ last'.ev = <<>>]_vars

\* A SmallVec2 that spilled has been popped down to length 0: it still has its
\* capacity of 4 and its heap buffer.
C21_Witness ==
  /\ last.op = "pop" /\ last.ret = 1 /\ size = 2
  /\ vec[1].len = 0 /\ vec[1].cap = 4
  /\ vec[1].ptr \in 1..Len(hp) /\ hp[vec[1].ptr].st = "live"

\* C22: self.push_all_move(other) makes self's contents old(self) followed by
\* old(other) and its length the sum of both lengths; each moved element is
\* then in self once and its destructor has not run; other's heap buffer, if
\* it had one, has been released exactly once.
C22_PushAllMoveAppends ==
  [][\A self \in Vecs, other \in Vecs :
       (Did("push_all_move", self) /\ last'.arg[1] = other) =>
         /\ as_slice(World, self)' = as_slice(World, self) \o as_slice(World, other)
         /\ vec'[self].len = vec[self].len + vec[other].len
         /\ \A e \in ElemsOf(World, other) :
              /\ el'[e].own = "vec" /\ el'[e].d = 0
              /\ Cardinality({i \in 1..vec'[self].len : as_slice(World, self)'[i] = e}) = 1
         /\ vec'[other].st = "dead"
         /\ spilled(World, other) =>
              hp[vec[other].ptr].nfree = 0 /\ hp'[vec[other].ptr].nfree = 1]_vars

\* What of C22 the code keeps: the contents, the length and the release of
\* other's heap buffer.
C22_ContentsAndBuffer ==
  [][\A self \in Vecs, other \in Vecs :
       (Did("push_all_move", self) /\ last'.arg[1] = other) =>
         /\ as_slice(World, self)' = as_slice(World, self) \o as_slice(World, other)
         /\ vec'[self].len = vec[self].len + vec[other].len
         /\ \A e \in ElemsOf(World, other) : el'[e].own = "vec"
         /\ vec'[other].st = "dead"
         /\ spilled(World, other) =>
              hp[vec[other].ptr].nfree = 0 /\ hp'[vec[other].ptr].nfree = 1]_vars

====
